---- MODULE Spec2Model ----
(***************************************************************************)
(* A model of the bencode parser of tquery (src/src/bencode.rs) and of its *)
(* callers (src/src/main.rs, src/src/metadata.rs).                         *)
(*                                                                         *)
(* A byte buffer is a sequence of one-character strings.  A parser result  *)
(* is the nom IResult: Ok(rest, value) or Err(severity, position, kind),   *)
(* where the severity is "Error" (recoverable) or "Failure" (not).         *)
(* i64 and usize values are kept at their full 64-bit width as three limbs *)
(* of seven decimal digits, <<high, middle, low>>, all of one sign.        *)
(***************************************************************************)
EXTENDS Integers, Sequences, FiniteSets, TLC

VARIABLES input, origin, call, key, result

vars == <<input, origin, call, key, result>>

\* ------------------------------------------------------------------------
\* Bounds of the checked input families.
\* ------------------------------------------------------------------------
MaxLen == 4

MaxN == 120

MaxPayload == 12

MaxElems == 2

MaxPairs == 2

\* ------------------------------------------------------------------------
\* Results (nom::IResult) and values (BEncodedType).
\* ------------------------------------------------------------------------
Ok(rest, val) == [ok |-> TRUE, rest |-> rest, val |-> val]

Err(sev, at, kind) == [ok |-> FALSE, sev |-> sev, at |-> at, kind |-> kind]

IsError(r) == ~r.ok /\ r.sev = "Error"

BString(s) == [t |-> "String", s |-> s]

BInteger(n) == [t |-> "Integer", n |-> n]

BList(items) == [t |-> "List", items |-> items]

BDictionary(m) == [t |-> "Dictionary", m |-> m]

\* ------------------------------------------------------------------------
\* Bytes.
\* ------------------------------------------------------------------------
DigitChars == <<"0", "1", "2", "3", "4", "5", "6", "7", "8", "9">>

Digits == {DigitChars[i] : i \in 1..10}

NonZeroDigits == Digits \ {"0"}

DigitVal(c) == (CHOOSE i \in 1..10 : DigitChars[i] = c) - 1

Drop(s, n) == SubSeq(s, n + 1, Len(s))

Take(s, n) == SubSeq(s, 1, n)

IsPrefix(p, s) == Len(p) <= Len(s) /\ Take(s, Len(p)) = p

\* ------------------------------------------------------------------------
\* 64-bit integers as limbs.
\* ------------------------------------------------------------------------
LimbBase == 10 ^ 7

\* I64_MAX as it would be were the digits parsed as an unsigned 64-bit value.
I64_MAX_unsigned == <<184467, 4407370, 9551615>>

I64_MAX == <<92233, 7203685, 4775807>>

I64_MIN == <<-92233, -7203685, -4775808>>

USIZE_MAX == <<184467, 4407370, 9551615>>

LimbLE(a, b) ==
    \/ a[1] < b[1]
    \/ a[1] = b[1] /\ a[2] < b[2]
    \/ a[1] = b[1] /\ a[2] = b[2] /\ a[3] <= b[3]

\* acc * 10 + d, the step of the standard library's FromStr for integers;
\* the high limb is left unreduced so that the caller can test the range.
MulAdd(acc, d) ==
    LET l0 == acc[3] * 10 + d
        l1 == acc[2] * 10 + (l0 \div LimbBase)
        l2 == acc[1] * 10 + (l1 \div LimbBase)
    IN  <<l2, l1 % LimbBase, l0 % LimbBase>>

RECURSIVE ParseDigits(_, _, _, _)
ParseDigits(bytes, i, acc, max) ==
    IF i > Len(bytes) THEN [ok |-> TRUE, val |-> acc]
    ELSE LET next == MulAdd(acc, DigitVal(bytes[i]))
         IN  IF LimbLE(next, max) THEN ParseDigits(bytes, i + 1, next, max)
             ELSE [ok |-> FALSE]

\* from_digit::<T>: the bytes are ASCII digits (digit1 matched them), so
\* from_utf8 succeeds and str::parse fails only on overflow of T.
from_digit(bytes, max) ==
    IF bytes = <<>> \/ \E i \in 1..Len(bytes) : bytes[i] \notin Digits
    THEN [ok |-> FALSE]
    ELSE ParseDigits(bytes, 1, <<0, 0, 0>>, max)

\* sign * digit on i64: the product, and whether it leaves the i64 range.
I64Mul(sign, x) == <<sign * x[1], sign * x[2], sign * x[3]>>

InI64Range(x) == LimbLE(I64_MIN, x) /\ LimbLE(x, I64_MAX)

\* The usize count of take() against the length of a buffer.
CountExceeds(count, n) == count[1] > 0 \/ count[2] > 0 \/ count[3] > n

\* ------------------------------------------------------------------------
\* nom's primitive parsers (the complete variants).
\* ------------------------------------------------------------------------
RECURSIVE DigitRun(_)
DigitRun(s) ==
    IF s # <<>> /\ s[1] \in Digits THEN 1 + DigitRun(Tail(s)) ELSE 0

digit1(s) ==
    LET n == DigitRun(s)
    IN  IF n = 0 THEN Err("Error", s, "Digit") ELSE Ok(Drop(s, n), Take(s, n))

tag(t, s) ==
    IF IsPrefix(t, s) THEN Ok(Drop(s, Len(t)), t) ELSE Err("Error", s, "Tag")

one_of(set, s) ==
    IF s # <<>> /\ s[1] \in set THEN Ok(Tail(s), s[1]) ELSE Err("Error", s, "OneOf")

\* take that hands out what is left when fewer bytes than count remain.
take_clamped(count, s) ==
    IF CountExceeds(count, Len(s)) THEN Ok(<<>>, s)
    ELSE Ok(Drop(s, count[3]), Take(s, count[3]))

take(count, s) ==
    IF CountExceeds(count, Len(s)) THEN Err("Error", s, "Eof")
    ELSE Ok(Drop(s, count[3]), Take(s, count[3]))

\* ------------------------------------------------------------------------
\* nom's combinators.  Each takes the result of the parser that ran before
\* it; an error of either severity ends a sequence, and only an Error lets
\* alt, opt and many0 go on.
\* ------------------------------------------------------------------------
\* preceded(first, second): r is the result of first, and next that of
\* second on what first left (looked at only when first succeeded).
preceded(r, next) == IF r.ok THEN next ELSE r

\* Replaces the value of a successful result.
with_value(r, v) == IF r.ok THEN Ok(r.rest, v) ELSE r

\* terminated that lets a missing terminator pass.
terminated_lenient(r, t) ==
    IF r.ok /\ tag(t, r.rest).ok THEN with_value(tag(t, r.rest), r.val) ELSE r

\* terminated(first, tag(t)): r is the result of first.
terminated(r, t) == IF r.ok THEN with_value(tag(t, r.rest), r.val) ELSE r

\* alt((first, second)): r is the result of first; the error of the last
\* alternative is the one returned.
alt(r, second) == IF IsError(r) THEN second ELSE r

\* ------------------------------------------------------------------------
\* The grammar.
\* ------------------------------------------------------------------------
\* map_res(preceded(peek(one_of("123456789")), digit1), from_digit::<i64>)
\* on s, then sign * digit.
signed_digit(sign, s, run, num) ==
    IF ~num.ok THEN Err("Error", s, "MapRes")
    ELSE IF ~InI64Range(I64Mul(sign, num.val)) THEN Err("Panic", s, "Overflow")
    ELSE Ok(run.rest, I64Mul(sign, num.val))

non_zero_digit1(sign, s, pk, run) ==
    IF ~pk.ok THEN pk
    ELSE IF ~run.ok THEN run
    ELSE signed_digit(sign, s, run, from_digit(run.val, I64_MAX))

\* opt(value(-1, tag("-"))): an Error becomes None and the input is kept.
after_sign(s, minus) ==
    IF minus.ok
    THEN non_zero_digit1(-1, minus.rest, one_of(NonZeroDigits, minus.rest), digit1(minus.rest))
    ELSE non_zero_digit1(1, s, one_of(NonZeroDigits, s), digit1(s))

non_zero_signed_digit1(s) == after_sign(s, tag(<<"-">>, s))

\* value(0, verify(digit1, |x| x == b"0")): run is the result of digit1.
zero(s, run) ==
    IF ~run.ok THEN run
    ELSE IF run.val = <<"0">> THEN Ok(run.rest, <<0, 0, 0>>)
    ELSE Err("Error", s, "Verify")

non_zero_padded_digit(s) == alt(zero(s, digit1(s)), non_zero_signed_digit1(s))

int_after_prefix(pre) ==
    terminated(preceded(pre, non_zero_padded_digit(pre.rest)), <<"e">>)

parse_int(s) == int_after_prefix(tag(<<"i">>, s))

\* tuple((map_res(digit1, from_digit::<usize>), tag(":"))), then take(len).
str_payload(len, sep) == IF ~sep.ok THEN sep ELSE take(len.val, sep.rest)

str_length(s, run, len) ==
    IF ~len.ok THEN Err("Error", s, "MapRes")
    ELSE str_payload(len, tag(<<":">>, run.rest))

str_prefix(s, run) ==
    IF ~run.ok THEN run ELSE str_length(s, run, from_digit(run.val, USIZE_MAX))

parse_str(s) == str_prefix(s, digit1(s))

\* collect that keeps the first pair of a key.
RECURSIVE collect_first_wins(_, _)
collect_first_wins(pairs, m) ==
    IF pairs = <<>> THEN m
    ELSE collect_first_wins(Tail(pairs),
                 [x \in DOMAIN m \cup {pairs[1][1]} |->
                     IF x \in DOMAIN m THEN m[x] ELSE pairs[1][2]])

\* pairs.into_iter().collect() into a HashMap: a later pair replaces an
\* earlier one of the same key.
RECURSIVE collect(_, _)
collect(pairs, m) ==
    IF pairs = <<>> THEN m
    ELSE collect(Tail(pairs),
                 [x \in DOMAIN m \cup {pairs[1][1]} |->
                     IF x = pairs[1][1] THEN pairs[1][2] ELSE m[x]])

EmptyMap == [x \in {} |-> <<>>]

\* map(parser, BEncodedType::Variant)
map_String(r) == IF r.ok THEN Ok(r.rest, BString(r.val)) ELSE r

map_Integer(r) == IF r.ok THEN Ok(r.rest, BInteger(r.val)) ELSE r

map_List(r) == IF r.ok THEN Ok(r.rest, BList(r.val)) ELSE r

map_Dictionary(r) == IF r.ok THEN Ok(r.rest, BDictionary(r.val)) ELSE r

RECURSIVE parse_primitive(_)
RECURSIVE parse_list(_)
RECURSIVE parse_dictionary(_)
RECURSIVE many0_primitive(_, _)
RECURSIVE many0_kv(_, _)

parse_primitive(s) ==
    alt(map_String(parse_str(s)),
        alt(map_Integer(parse_int(s)),
            alt(map_List(parse_list(s)),
                map_Dictionary(parse_dictionary(s)))))

\* One round of many0(parse_primitive): r is the result of the parser on s.
many0_primitive_step(s, acc, r) ==
    IF IsError(r) THEN Ok(s, acc)
    ELSE IF ~r.ok THEN r
    ELSE IF Len(r.rest) = Len(s) THEN Err("Error", s, "Many0")
    ELSE many0_primitive(r.rest, Append(acc, r.val))

many0_primitive(s, acc) == many0_primitive_step(s, acc, parse_primitive(s))

items_primitive(s) == many0_primitive(s, <<>>)

\* pair(parse_str, parse_primitive): k is the result of parse_str.
pair_value(k, v) == IF v.ok THEN Ok(v.rest, <<k.val, v.val>>) ELSE v

pair_key(k) == IF k.ok THEN pair_value(k, parse_primitive(k.rest)) ELSE k

kv(s) == pair_key(parse_str(s))

\* One round of many0(kv).
many0_kv_step(s, acc, r) ==
    IF IsError(r) THEN Ok(s, acc)
    ELSE IF ~r.ok THEN r
    ELSE IF Len(r.rest) = Len(s) THEN Err("Error", s, "Many0")
    ELSE many0_kv(r.rest, Append(acc, r.val))

many0_kv(s, acc) == many0_kv_step(s, acc, kv(s))

items_kv(s) == many0_kv(s, <<>>)

list_after_prefix(pre) ==
    terminated(preceded(pre, items_primitive(pre.rest)), <<"e">>)

parse_list(s) == list_after_prefix(tag(<<"l">>, s))

\* collected that refuses a key that occurs twice.
collected_reject_duplicates(r) ==
    IF ~r.ok THEN r
    ELSE IF \E i, j \in 1..Len(r.val) : i < j /\ r.val[i][1] = r.val[j][1]
         THEN Err("Failure", r.rest, "Verify")
         ELSE Ok(r.rest, collect(r.val, EmptyMap))

collected(r) == IF r.ok THEN Ok(r.rest, collect(r.val, EmptyMap)) ELSE r

dictionary_after_prefix(pre) ==
    terminated(preceded(pre, items_kv(pre.rest)), <<"e">>)

parse_dictionary(s) == collected(dictionary_after_prefix(tag(<<"d">>, s)))

\* decode: parse_primitive(..).unwrap(), two println!, and no return value.
unwrap(r) ==
    IF r.ok THEN [outcome |-> "unit", printed |-> <<r.val, r.rest>>]
    ELSE [outcome |-> "panic", printed |-> <<>>]

decode(s) == unwrap(parse_primitive(s))

\* dict_get: the accessor the callers (main, Metadata::parse) use.
dict_get(v, k) ==
    IF v.t # "Dictionary" THEN [ok |-> FALSE, err |-> "type"]
    ELSE IF k \notin DOMAIN v.m THEN [ok |-> FALSE, err |-> "not found"]
    ELSE [ok |-> TRUE, val |-> v.m[k]]

\* ------------------------------------------------------------------------
\* Input buffers.  Every buffer is kept with its origin: how it was written.
\* ------------------------------------------------------------------------
Alphabet == {"0", "1", ":", "i", "-", "e", "l", "d", "a"}

RECURSIVE Strings(_)
Strings(n) ==
    IF n = 0 THEN {<<>>}
    ELSE LET shorter == Strings(n - 1)
         IN  shorter \cup {Append(s, c) : s \in {x \in shorter : Len(x) = n - 1}, c \in Alphabet}

RawInputs == Strings(MaxLen)

\* decimal(n), for a natural number n.
RECURSIVE Decimal(_)
Decimal(n) ==
    IF n < 10 THEN <<DigitChars[n + 1]>>
    ELSE Append(Decimal(n \div 10), DigitChars[(n % 10) + 1])

I64(n) == <<0, 0, n>>

SeqsUpTo(S, n) == UNION {[1..k -> S] : k \in 0..n}

\* The literal inputs of the tests of src/src/bencode.rs.
TestInputs ==
    << <<"6", ":", "f", "o", "o", "b", "a", "r">>,
       <<"i", "1", "3", "e">>,
       <<"l", "i", "1", "4", "e", "e">>,
       <<"d", "5", ":", "c", "a", "r", "v", "e", "i", "5", "5", "e",
         "7", ":", "d", "e", "u", "t", "s", "c", "h", "i", "4", "e",
         "e">>,
       <<"d", "6", ":", "f", "o", "o", "b", "a", "r", "i", "9", "e",
         "e">>,
       <<"d", "3", ":", "c", "a", "t", "3", ":", "d", "o", "g", "e">>,
       <<"d", "e">>,
       <<"d", "5", ":", "h", "o", "s", "h", "i", "l", "5", ":", "u",
         "u", "c", "h", "i", "6", ":", "j", "i", "g", "o", "k", "u",
         "e", "e">>,
       <<"d", "i", "1", "2", "e", "i", "9", "9", "e", "e">>,
       <<"l", "i", "1", "2", "e", "i", "-", "1", "7", "e", "e">>,
       <<"l", "e">>,
       <<"l", "i", "1", "8", "e", "5", ":", "h", "e", "l", "l", "o",
         "e">>,
       <<"l", "i", "1", "2", "e", "l", "4", ":", "f", "i", "z", "z",
         "4", ":", "b", "u", "z", "z", "e", "3", ":", "b", "a", "z",
         "e">>,
       <<"i", "4", "5", "e">>,
       <<"5", "5", "e">>,
       <<"i", "0", "3", "2", "e">>,
       <<"i", "-", "4", "2", "e">>,
       <<"3", ":", "f", "o", "o">>,
       <<"i", "3", "2">>,
       <<"2", "3", ":", "f", "o", "o", "b", "a", "r">> >>

\* Integer literals: "i", an optional "-", an optional padding "0", the
\* decimal digits of n, "e", and trailing bytes.
Tails == {<<>>, <<"e">>, <<"1", ":">>}

IntOrigins ==
    {[kind |-> "int", n |-> n, neg |-> g, pad |-> p, tail |-> t] :
        n \in 0..MaxN, g \in BOOLEAN, p \in BOOLEAN, t \in Tails}

IntBytes(o) ==
    <<"i">> \o (IF o.neg THEN <<"-">> ELSE <<>>) \o (IF o.pad THEN <<"0">> ELSE <<>>)
        \o Decimal(o.n) \o <<"e">> \o o.tail

\* Byte strings: the decimal length, ":", a payload of that length made of
\* bytes that are meaningful elsewhere in the grammar, and trailing bytes;
\* short > 0 leaves that many bytes of the payload out (and nothing follows).
PayloadPattern == <<"e", ":", "1", "i", "0", "d">>

Payload(len, off) ==
    [i \in 1..len |-> PayloadPattern[((i + off) % Len(PayloadPattern)) + 1]]

StrOrigins ==
    {[kind |-> "str", len |-> n, off |-> f, tail |-> t, short |-> 0] :
        n \in 0..MaxPayload, f \in 0..2, t \in Tails}
    \cup
    {[kind |-> "str", len |-> n, off |-> f, tail |-> <<>>, short |-> k] :
        n \in 1..MaxPayload, f \in 0..2, k \in 1..2}

StrBytes(o) ==
    Decimal(o.len) \o <<":">>
        \o Take(Payload(o.len, o.off), IF o.short > o.len THEN 0 ELSE o.len - o.short)
        \o o.tail

\* Integer literals around the ends of the 64-bit ranges: the magnitude is
\* given by its limbs and written out limb by limb.
RECURSIVE ZeroPad(_, _)
ZeroPad(ds, width) == IF Len(ds) >= width THEN ds ELSE ZeroPad(<<"0">> \o ds, width)

LimbDigits(m) ==
    IF m[1] > 0 THEN Decimal(m[1]) \o ZeroPad(Decimal(m[2]), 7) \o ZeroPad(Decimal(m[3]), 7)
    ELSE IF m[2] > 0 THEN Decimal(m[2]) \o ZeroPad(Decimal(m[3]), 7)
    ELSE Decimal(m[3])

BigMagnitudes ==
    {<<h, m, l>> : h \in {0, 1, 9223, 92232, 92233, 92234, 184467, 1000000},
                   m \in {0, 7203684, 7203685, 7203686, 9999999},
                   l \in {1, 4775806, 4775807, 4775808, 9999999}}

BigOrigins == {[kind |-> "big", mag |-> m, neg |-> g] : m \in BigMagnitudes, g \in BOOLEAN}

BigBytes(o) ==
    <<"i">> \o (IF o.neg THEN <<"-">> ELSE <<>>) \o LimbDigits(o.mag) \o <<"e">>

\* Documents: lists and dictionaries written from a table of elements.  An
\* element that is not good is a non-canonical integer, bare or nested; cut
\* drops that many bytes from the end of the document.
Elems ==
    << [good |-> TRUE,  b |-> <<"i", "1", "e">>, v |-> BInteger(I64(1))],
       [good |-> TRUE,  b |-> <<"i", "-", "2", "e">>, v |-> BInteger(I64(-2))],
       [good |-> TRUE,  b |-> <<"1", ":", "e">>, v |-> BString(<<"e">>)],
       [good |-> TRUE,  b |-> <<"0", ":">>, v |-> BString(<<>>)],
       [good |-> TRUE,  b |-> <<"l", "i", "1", "e", "e">>, v |-> BList(<<BInteger(I64(1))>>)],
       [good |-> TRUE,  b |-> <<"d", "1", ":", "a", "i", "0", "e", "e">>,
                        v |-> BDictionary(<<"a">> :> BInteger(I64(0)))],
       [good |-> FALSE, b |-> <<"i", "0", "1", "e">>, v |-> <<>>],
       [good |-> FALSE, b |-> <<"i", "-", "0", "e">>, v |-> <<>>],
       [good |-> FALSE, b |-> <<"i", "-", "e">>, v |-> <<>>],
       [good |-> FALSE, b |-> <<"l", "i", "1", "e", "i", "0", "1", "e", "e">>, v |-> <<>>],
       [good |-> FALSE, b |-> <<"d", "1", ":", "a", "l", "i", "-", "0", "e", "e", "e">>, v |-> <<>>] >>

ElemIds == 1..Len(Elems)

\* A key that is not good starts a byte string and lacks its ":".
Keys == << [good |-> TRUE,  b |-> <<"1", ":", "a">>, k |-> <<"a">>],
           [good |-> TRUE,  b |-> <<"1", ":", "b">>, k |-> <<"b">>],
           [good |-> FALSE, b |-> <<"1", "a">>, k |-> <<>>] >>

KeyIds == 1..Len(Keys)

\* A key and the element written after it; after a key that is not good
\* the element makes no difference, and one is written.
PairChoices ==
    {<<k, e>> \in KeyIds \X ElemIds : Keys[k].good \/ e = 1}

RECURSIVE ElemBytes(_)
ElemBytes(es) == IF es = <<>> THEN <<>> ELSE Elems[es[1]].b \o ElemBytes(Tail(es))

RECURSIVE PairBytes(_)
PairBytes(ps) ==
    IF ps = <<>> THEN <<>>
    ELSE Keys[ps[1][1]].b \o Elems[ps[1][2]].b \o PairBytes(Tail(ps))

ListDoc(es) == <<"l">> \o ElemBytes(es) \o <<"e">>

DictDoc(ps) == <<"d">> \o PairBytes(ps) \o <<"e">>

AllGood(es) == \A i \in 1..Len(es) : Elems[es[i]].good

AllGoodPairs(ps) == \A i \in 1..Len(ps) : Keys[ps[i][1]].good /\ Elems[ps[i][2]].good

ListOrigins ==
    UNION {{[kind |-> "list", elems |-> es, cut |-> c] :
                c \in IF AllGood(es) THEN 0..(Len(ListDoc(es)) - 1) ELSE {0}} :
           es \in SeqsUpTo(ElemIds, MaxElems)}

DictOrigins ==
    UNION {{[kind |-> "dict", pairs |-> ps, cut |-> c] :
                c \in IF AllGoodPairs(ps) THEN 0..(Len(DictDoc(ps)) - 1) ELSE {0}} :
           ps \in SeqsUpTo(PairChoices, MaxPairs)}

ListBytes(o) == LET doc == ListDoc(o.elems) IN Take(doc, Len(doc) - o.cut)

DictBytes(o) == LET doc == DictDoc(o.pairs) IN Take(doc, Len(doc) - o.cut)

\* The keys a caller looks up: two that documents use and one that none does.
LookupKeys == {<<"a">>, <<"b">>, <<"c">>}

\* ------------------------------------------------------------------------
\* The state machine: a buffer is read, then one entry point is applied.
\* ------------------------------------------------------------------------
NoKey == <<>>

Init ==
    /\ \/ origin = [kind |-> "raw"] /\ input \in RawInputs
       \/ \E i \in 1..Len(TestInputs) : origin = [kind |-> "test", id |-> i] /\ input = TestInputs[i]
       \/ origin \in IntOrigins /\ input = IntBytes(origin)
       \/ origin \in StrOrigins /\ input = StrBytes(origin)
       \/ origin \in BigOrigins /\ input = BigBytes(origin)
       \/ origin \in ListOrigins /\ input = ListBytes(origin)
       \/ origin \in DictOrigins /\ input = DictBytes(origin)
    /\ call = "none"
    /\ key = NoKey
    /\ result = <<>>

Apply(name, r) ==
    /\ call = "none"
    /\ call' = name
    /\ result' = r
    /\ UNCHANGED <<input, origin>>

ParseStr == Apply("parse_str", parse_str(input)) /\ UNCHANGED key

ParseInt == Apply("parse_int", parse_int(input)) /\ UNCHANGED key

ParseList == Apply("parse_list", parse_list(input)) /\ UNCHANGED key

ParseDictionary == Apply("parse_dictionary", parse_dictionary(input)) /\ UNCHANGED key

ParsePrimitive == Apply("parse_primitive", parse_primitive(input)) /\ UNCHANGED key

Decode == Apply("decode", decode(input)) /\ UNCHANGED key

\* main and Metadata::parse: the decoded value, then dict_get on it.
DictGet ==
    /\ parse_primitive(input).ok
    /\ \E k \in LookupKeys :
        /\ key' = k
        /\ Apply("dict_get", dict_get(parse_primitive(input).val, k))

Next ==
    \/ ParseStr
    \/ ParseInt
    \/ ParseList
    \/ ParseDictionary
    \/ ParsePrimitive
    \/ Decode
    \/ DictGet

Spec == Init /\ [][Next]_vars

\* ------------------------------------------------------------------------
\* What the claims are stated over.
\* ------------------------------------------------------------------------
\* The keys of a sequence of pairs, and the place of the last pair of a key.
PairKeys(ps) == {Keys[ps[i][1]].k : i \in 1..Len(ps)}

LastIndex(ps, k) ==
    CHOOSE i \in 1..Len(ps) :
        /\ Keys[ps[i][1]].k = k
        /\ \A j \in (i + 1)..Len(ps) : Keys[ps[j][1]].k # k

\* A dictionary document written whole from good elements.
GoodDict == origin.kind = "dict" /\ origin.cut = 0 /\ AllGoodPairs(origin.pairs)

GoodList == origin.kind = "list" /\ origin.cut = 0 /\ AllGood(origin.elems)

\* A document with a malformed element: a non-canonical integer as a list
\* element or dictionary value at some depth, a dictionary key without its
\* ":", or a document cut short, which leaves a string payload truncated or
\* an "e" terminator missing.
Malformed ==
    \/ origin.kind = "list" /\ (origin.cut > 0 \/ ~AllGood(origin.elems))
    \/ origin.kind = "dict" /\ (origin.cut > 0 \/ ~AllGoodPairs(origin.pairs))

\* A canonical integer literal from the families that write them.
CanonicalSmall == origin.kind = "int" /\ ~origin.pad /\ (origin.neg => origin.n > 0)

Signed(neg, m) == IF neg THEN <<-m[1], -m[2], -m[3]>> ELSE m

\* Whether a magnitude, given by its limbs, is at most 2^63 - 1.
Fits63(m) ==
    \/ m[1] < 92233
    \/ m[1] = 92233 /\ m[2] < 7203685
    \/ m[1] = 92233 /\ m[2] = 7203685 /\ m[3] <= 4775807

\* Whether a signed magnitude is the value of a 64-bit signed integer.
IsI64(neg, m) == Fits63(m) \/ (neg /\ m = <<92233, 7203685, 4775808>>)

\* ------------------------------------------------------------------------
\* The claims.
\* ------------------------------------------------------------------------

\* C1: a partially matched byte string or integer is a hard Failure:
\* parse_str on a length, ":" and fewer bytes than the length returns
\* Failure(Eof) at the payload; parse_int on "i" and a zero-padded digit run
\* returns Failure(OneOf) just after the "i"; parse_primitive returns that
\* same failure and tries no later production.
C1_PartialMatchIsFailure ==
    /\ (origin.kind = "str" /\ origin.short > 0 /\ call \in {"parse_str", "parse_primitive"})
        => result = Err("Failure", Drop(input, Len(Decimal(origin.len)) + 1), "Eof")
    /\ (origin.kind = "int" /\ origin.pad /\ ~origin.neg /\ call \in {"parse_int", "parse_primitive"})
        => result = Err("Failure", Tail(input), "OneOf")

\* C2: parse_dictionary on "d" followed, at the next key position, by bytes
\* that are neither a byte string nor the terminator "e" returns Failure(Tag)
\* at that key position.
C2_NonStringKeyIsFailure ==
    (call = "parse_dictionary" /\ input # <<>> /\ input[1] = "d") =>
        LET items == items_kv(Tail(input))
        IN  (items.ok /\ items.rest # <<>> /\ items.rest[1] # "e" /\ ~parse_str(items.rest).ok)
                => result = Err("Failure", items.rest, "Tag")

\* C3: parse_int accepts exactly the canonical integer literals with their
\* exact value: "i" decimal(n) "e" yields n and "i-" decimal(n) "e" yields
\* -n for n > 0, for every value a 64-bit signed integer holds; a padding
\* zero, "-0", "i-e" and "ie" fail; an input that does not start with "i"
\* is Error(Tag) at the input.
C3_CanonicalIntegers ==
    call = "parse_int" =>
        /\ CanonicalSmall
            => result = Ok(origin.tail, I64(IF origin.neg THEN -origin.n ELSE origin.n))
        /\ (origin.kind = "big" /\ IsI64(origin.neg, origin.mag))
            => result = Ok(<<>>, Signed(origin.neg, origin.mag))
        /\ (origin.kind = "int" /\ ~CanonicalSmall) => ~result.ok
        /\ input \in {<<"i", "-", "e">>, <<"i", "e">>} => ~result.ok
        /\ (input = <<>> \/ input[1] # "i") => result = Err("Error", input, "Tag")

\* C4: parse_str on decimal(L) ":" s t, with s of length L, returns exactly
\* s and leaves exactly t; with fewer than L bytes after the ":" it fails.
C4_StrPayloadExact ==
    call = "parse_str" =>
        /\ \A len \in 0..Len(input) :
            LET head == Decimal(len) \o <<":">>
            IN  IsPrefix(head, input) =>
                    IF Len(input) - Len(head) >= len
                    THEN result = Ok(Drop(input, Len(head) + len),
                                     SubSeq(input, Len(head) + 1, Len(head) + len))
                    ELSE ~result.ok
        /\ origin.kind = "str" =>
            IF origin.short = 0
            THEN result = Ok(origin.tail, Payload(origin.len, origin.off))
            ELSE ~result.ok

C4_Witness ==
    /\ call = "parse_str"
    /\ origin.kind = "str" /\ origin.len = 11 /\ origin.short = 0 /\ origin.tail = <<"e">>
    /\ result.ok /\ Len(result.val) = 11 /\ result.rest = <<"e">>
    /\ \E i, j \in 1..11 : result.val[i] = "e" /\ result.val[j] = ":"

\* C5: a length written with a leading zero and more digits is rejected by
\* parse_str and parse_primitive.
C5_LeadingZeroLengthRejected ==
    (/\ call \in {"parse_str", "parse_primitive"}
     /\ DigitRun(input) >= 2
     /\ input[1] = "0"
     /\ Len(input) > DigitRun(input)
     /\ input[DigitRun(input) + 1] = ":") => ~result.ok

\* C6: decode hands every parse error to its caller as an error value and
\* never panics, and hands the parsed value to its caller on success.
C6_DecodeReturnsResult ==
    call = "decode" =>
        /\ result.outcome # "panic"
        /\ parse_primitive(input).ok => result.outcome = "value"

\* C7: on a parsed dictionary dict_get returns the sub-value that followed
\* the key (its last occurrence) and "not found" for an absent key; on a
\* String, Integer or List it returns a type error.
C7_DictGetReturnsSubValue ==
    call = "dict_get" =>
        /\ GoodDict =>
            IF key \in PairKeys(origin.pairs)
            THEN result = [ok |-> TRUE,
                           val |-> Elems[origin.pairs[LastIndex(origin.pairs, key)][2]].v]
            ELSE result = [ok |-> FALSE, err |-> "not found"]
        /\ (GoodList \/ CanonicalSmall \/ (origin.kind = "str" /\ origin.short = 0))
            => result = [ok |-> FALSE, err |-> "type"]

C7_Witness ==
    /\ call = "dict_get" /\ GoodDict /\ Len(origin.pairs) = 2
    /\ origin.pairs[1][1] # origin.pairs[2][1]
    /\ key = <<"b">>
    /\ result.ok /\ result.val = BList(<<BInteger(I64(1))>>)

\* C8: a document with a malformed list element, dictionary key or
\* dictionary value, at any depth, makes parse_primitive return an error: it
\* never returns the elements that came before the malformed one.
C8_MalformedNeverSwallowed ==
    (call = "parse_primitive" /\ Malformed) => ~result.ok

C8_Witness ==
    /\ call = "parse_primitive" /\ origin.kind = "list" /\ Len(origin.elems) = 2
    /\ Elems[origin.elems[1]].good
    /\ origin.elems[2] = 10
    /\ ~result.ok

\* C9: an integer literal whose magnitude exceeds 2^63 - 1 is rejected with
\* an error, never wrapped, and sign * magnitude never overflows; so
\* -2^63 is rejected, and 2^63 - 1 and -(2^63 - 1) yield their exact values.
C9_OutOfRangeRejected ==
    (call = "parse_int" /\ origin.kind = "big") =>
        IF Fits63(origin.mag)
        THEN result = Ok(<<>>, Signed(origin.neg, origin.mag))
        ELSE IsError(result)

C9_Witness ==
    /\ call = "parse_int" /\ origin.kind = "big"
    /\ origin.neg /\ origin.mag = <<92233, 7203685, 4775808>>
    /\ IsError(result)

\* C10: parse_dictionary accepts pairs in any key order and with repeated
\* keys; the map holds one entry per distinct key, the value of the key's
\* last occurrence.
C10_LastOccurrenceWins ==
    (call = "parse_dictionary" /\ GoodDict) =>
        /\ result.ok /\ result.rest = <<>>
        /\ DOMAIN result.val = PairKeys(origin.pairs)
        /\ Cardinality(DOMAIN result.val) = Cardinality({origin.pairs[i][1] : i \in 1..Len(origin.pairs)})
        /\ \A k \in PairKeys(origin.pairs) :
            result.val[k] = Elems[origin.pairs[LastIndex(origin.pairs, k)][2]].v

C10_Witness ==
    /\ call = "parse_dictionary" /\ GoodDict /\ Len(origin.pairs) = 2
    /\ origin.pairs[1][1] = origin.pairs[2][1]
    /\ origin.pairs[1][2] = 1 /\ origin.pairs[2][2] = 3
    /\ result.ok /\ result.val[<<"a">>] = BString(<<"e">>)

====
